---- MODULE Spec2Model ----
(***************************************************************************)
(* A model of the library catalog (src/book.py, src/member.py,             *)
(* src/library.py), of the issue/return workflow (src/issue_return.py), of *)
(* the search functions (src/search.py) and of the authentication system   *)
(* (src/auth_system.py).                                                   *)
(*                                                                         *)
(* Python objects are modelled as follows.                                 *)
(*   - A dict is a sequence of entries [key, val] in insertion order:      *)
(*     assigning to an existing key keeps its position, del removes the    *)
(*     entry, assigning to a new key appends.                              *)
(*   - Member objects live on a heap, member_objs; a reference to a Member *)
(*     is its index on the heap, and None is the reference 0.  A caller    *)
(*     may hold a reference to a Member that is not (or no longer) stored  *)
(*     in the catalog.                                                     *)
(*   - A Book is reached only through Library.books, so the dict holds the *)
(*     Book's fields by value; title and author take no part in lending.   *)
(*   - A str that is searched (ISBN, title, author, query) is a sequence   *)
(*     of one-character strings, so that lower() and the substring test    *)
(*     are computed; the other strs are compared for equality only.        *)
(*   - datetime.now() reads the logical clock now, in minutes; uuid.uuid4  *)
(*     draws a token that was never drawn before, and minted counts the    *)
(*     tokens drawn.                                                       *)
(* Every handler is a pure operator from a library value                   *)
(* [books, members, objs] and its arguments to the library after the call  *)
(* together with the returned (success, message); the actions apply them   *)
(* to the state and record the call and what it returned in ret.  The      *)
(* methods of AuthSystem are pure operators in the same way, from an       *)
(* AuthSystem value [users, sessions], the arguments and the clock.        *)
(***************************************************************************)
EXTENDS Integers, Sequences, FiniteSets

VARIABLES
    books,        \* Library.books: dict isbn -> Book
    members,      \* Library.members: dict member_id -> reference to a Member
    member_objs,  \* the Member objects constructed so far
    users,        \* AuthSystem.users: dict username -> credential record
    sessions,     \* AuthSystem.sessions: dict token -> session record
    now,          \* the clock datetime.now() reads, in minutes
    minted,       \* the number of tokens uuid.uuid4 has drawn
    ret,          \* the last call made: its operation and what it returned
    callers,      \* the calls of issue_book / return_book in progress: for each
                  \* caller its position in the function and its local variables
    lock          \* the caller holding the exclusive lock on the catalog, or None

vars ==
    <<books, members, member_objs, users, sessions, now, minted, ret, callers,
      lock>>

----------------------------------------------------------------------------
(* Bounds of the model *)

\* add_book enters copies in 0 .. MaxCopies; a return is not taken past MaxCopies
MaxCopies == 2

\* the ISBNs and member ids the callers use
ISBNs == {<<"a">>, <<"b">>}
MemberIds == {"M1", "M2"}
\* the references of the Member objects the callers construct: two objects
\* give two members of the catalog, a member outside it, and a second Member
\* constructed with an id that is already stored.  (With {1, 2, 3} and
\* MaxCopies = 3 Spec has 2,281,624 states and the invariants of C1..C7 hold.)
MemberRefs == {1, 2}
\* the copies a book is entered with
CopiesIn == 0 .. MaxCopies
\* the copies Book(isbn, title, author, copies) takes, which it does not
\* test: those of CopiesIn and a negative number
AnyCopies == CopiesIn \cup {-1}

\* the values the clock takes, in minutes: a session created at 1 expires at
\* 31 and one created at 2 at 32, so that the clock passes between, onto and
\* beyond the expiry times; a datetime is never None, so no value is 0
ClockValues == {1, 2, 31, 32, 33}

\* the later clock values at which credentials are used: no session expires
LoginClockValues == {2}

\* the clock values, for one librarian at the desk, at which the session of
\* a login made at the first clock value has expired
DeskClockValues == {32}

\* the clock value at which AuthSystem() is constructed
Epoch == CHOOSE c \in ClockValues : \A d \in ClockValues : c <= d

\* uuid.uuid4 is drawn at most MaxTokens times; the tokens callers present
\* are those and one that is never drawn
MaxTokens == 3
Tokens == 1 .. MaxTokens + 1

\* the login window is used to log in at most MaxLogins times
MaxLogins == 1

\* the callers that run issue_book / return_book at the same time, and the
\* copies of each book they compete for
Callers == {1, 2}
StockCopies == 1

\* the usernames, passwords and roles callers enter: a default user and one
\* to add; the default password of the user, and another
Usernames == {"librarian", "newuser"}
Passwords == {"admin123", "newpassword"}
Roles == {"librarian", "member"}

\* the usernames sessions are created for: a user, and one who is no user
SessionUsernames == {"librarian", "ghost"}

\* the title and the author of the books of the lending specifications
LendingTitle == <<"b">>
LendingAuthor == <<"a">>

\* the titles and authors of the books that are searched, the queries and
\* the search types: a query may be empty, differ from a title in case only,
\* be part of a title or of an author, be an ISBN, or be longer than both;
\* a book of author "B" with title "b" matches the query "a" by ISBN at most
Titles == {LendingTitle, <<"A", "b">>}
Authors == {LendingAuthor, <<"B", "a">>, <<"B">>}
Queries == {<<>>, <<"a">>, <<"A">>, <<"b">>, <<"a", "b">>, <<"b", "a">>,
            <<"a", "b", "a">>}
SearchTypes == {"all", "title", "author", "isbn"}

----------------------------------------------------------------------------
(* Python values *)

\* the null reference
None == 0

\* the fixed part of each returned message
MsgBookNotFound   == "not found in library"
MsgNotAvailable   == "is not available (no copies left)"
MsgAlreadyHas     == "already has this book"
MsgDoesntHave     == "doesn't have this book"
MsgMemberNotFound == "Member with ID not found"
MsgIssued         == "issued to"
MsgReturned       == "returned by"

\* x in list
ListContains(list, x) == \E k \in DOMAIN list : list[k] = x

\* list.append(x)
ListAppend(list, x) == Append(list, x)

\* list.remove(x) written as list.pop(0): the head is removed whatever x is
ListRemoveHead(list, x) == SubSeq(list, 2, Len(list))

\* list.remove(x), x in list: the first occurrence of x is removed
ListRemove(list, x) ==
    LET k == CHOOSE j \in DOMAIN list :
                 /\ list[j] = x
                 /\ \A h \in 1 .. (j - 1) : list[h] # x
    IN  SubSeq(list, 1, k - 1) \o SubSeq(list, k + 1, Len(list))

\* key in d
DictHas(d, key) == \E k \in DOMAIN d : d[k].key = key

\* the position of key in d
DictIndex(d, key) == CHOOSE k \in DOMAIN d : d[k].key = key

\* d[key], key in d
DictGet(d, key) == d[DictIndex(d, key)].val

\* d[key] = val
DictSet(d, key, val) ==
    IF DictHas(d, key)
    THEN [d EXCEPT ![DictIndex(d, key)].val = val]
    ELSE Append(d, [key |-> key, val |-> val])

\* del d[key], key in d
DictDel(d, key) ==
    LET k == DictIndex(d, key)
    IN  SubSeq(d, 1, k - 1) \o SubSeq(d, k + 1, Len(d))

----------------------------------------------------------------------------
(* src/book.py, src/member.py *)

\* Book(isbn, title, author, copies)
Book(isbn, title, author, copies) ==
    [isbn |-> isbn, title |-> title, author |-> author, copies |-> copies]

\* Member(member_id, name)
Member(member_id) == [member_id |-> member_id, borrowed_books |-> <<>>]

\* Member.has_book
has_book(m, isbn) == ListContains(m.borrowed_books, isbn)

\* Member.borrow_book without its membership test: isbn is always appended
borrow_book_unchecked(m, isbn) ==
    [m  |-> [m EXCEPT !.borrowed_books = ListAppend(@, isbn)], ok |-> TRUE]

\* Member.borrow_book: the member after the call, and the returned bool
borrow_book(m, isbn) ==
    IF ~ListContains(m.borrowed_books, isbn)
    THEN [m  |-> [m EXCEPT !.borrowed_books = ListAppend(@, isbn)],
          ok |-> TRUE]
    ELSE [m |-> m, ok |-> FALSE]

\* Member.return_book: the member after the call, and the returned bool
member_return_book(m, isbn) ==
    IF ListContains(m.borrowed_books, isbn)
    THEN [m  |-> [m EXCEPT !.borrowed_books = ListRemove(@, isbn)],
          ok |-> TRUE]
    ELSE [m |-> m, ok |-> FALSE]

----------------------------------------------------------------------------
(* src/library.py: a library value is [books, members, objs] *)

\* Library()
Library == [books |-> <<>>, members |-> <<>>, objs |-> <<>>]

\* what a call returns: the library after it, success, message
Result(lib, ok, msg) == [lib |-> lib, ok |-> ok, msg |-> msg]

\* Library.get_book: a reference to the Book (its position in the dict),
\* None when isbn is not a key
get_book(lib, isbn) ==
    IF DictHas(lib.books, isbn) THEN DictIndex(lib.books, isbn) ELSE None

\* Library.get_member: a reference, None when member_id is not a key
get_member(lib, member_id) ==
    IF DictHas(lib.members, member_id) THEN DictGet(lib.members, member_id)
    ELSE None

\* Library.add_book that rejects an ISBN that is stored
add_book_rejects_duplicate(lib, book) ==
    IF DictHas(lib.books, book.isbn) THEN Result(lib, FALSE, "")
    ELSE Result([lib EXCEPT !.books = DictSet(@, book.isbn, book)], TRUE, "")

\* Library.add_book
add_book(lib, book) ==
    Result([lib EXCEPT !.books = DictSet(@, book.isbn, book)], TRUE, "")

\* Library.remove_book
remove_book(lib, isbn) ==
    IF DictHas(lib.books, isbn)
    THEN Result([lib EXCEPT !.books = DictDel(@, isbn)], TRUE, "")
    ELSE Result(lib, FALSE, "")

\* Library.add_member, member a reference
add_member(lib, member) ==
    Result([lib EXCEPT !.members =
                DictSet(@, lib.objs[member].member_id, member)], TRUE, "")

\* Library.remove_member
remove_member(lib, member_id) ==
    IF DictHas(lib.members, member_id)
    THEN Result([lib EXCEPT !.members = DictDel(@, member_id)], TRUE, "")
    ELSE Result(lib, FALSE, "")

\* Library.get_available_books counting the books without copies as well
get_available_books_all(lib) ==
    LET Available(ref) == lib.books[ref].val.copies >= 0
    IN  SelectSeq([k \in DOMAIN lib.books |-> k], Available)

\* Library.get_available_books: references to the Books with copies > 0
get_available_books(lib) ==
    LET Available(ref) == lib.books[ref].val.copies > 0
    IN  SelectSeq([k \in DOMAIN lib.books |-> k], Available)

\* sum(len(member.borrowed_books) for member in members.values()), the
\* members being those stored at the positions 1 .. n of the dict
RECURSIVE SumBorrowed(_, _)
SumBorrowed(lib, n) ==
    IF n = 0 THEN 0
    ELSE SumBorrowed(lib, n - 1)
           + Len(lib.objs[lib.members[n].val].borrowed_books)

\* Library.get_library_stats
get_library_stats(lib) ==
    [total_books     |-> Len(lib.books),
     available_books |-> Len(get_available_books(lib)),
     total_members   |-> Len(lib.members),
     books_borrowed  |-> SumBorrowed(lib, Len(lib.members))]

----------------------------------------------------------------------------
(* src/search.py: a str is a sequence of characters, a result is a list of *)
(* references to Books, a reference being the position in library.books    *)

\* str.lower(), a character at a time
LowerChar(ch) ==
    CASE ch = "A" -> "a"
      [] ch = "B" -> "b"
      [] OTHER    -> ch

\* str.lower()
lower(str) == [k \in DOMAIN str |-> LowerChar(str[k])]

\* a in b, for strs: a is a substring of b
StrIn(a, b) ==
    \E k \in 0 .. Len(b) - Len(a) : SubSeq(b, k + 1, k + Len(a)) = a

\* library.books.values(): the references to the Books, in insertion order
values(lib) == [k \in DOMAIN lib.books |-> k]

\* the Book a reference of library.books refers to
BookAt(lib, ref) == lib.books[ref].val

\* search_by_title comparing the title as it is written
search_by_title_case_sensitive(lib, title) ==
    IF Len(title) = 0 THEN <<>>
    ELSE LET Matches(ref) == StrIn(title, BookAt(lib, ref).title)
         IN  SelectSeq(values(lib), Matches)

\* search_by_title
search_by_title(lib, title) ==
    IF Len(title) = 0 THEN <<>>
    ELSE LET title_lower == lower(title)
             Matches(ref) == StrIn(title_lower, lower(BookAt(lib, ref).title))
         IN  SelectSeq(values(lib), Matches)

\* search_by_author returning the latest book first
search_by_author_latest_first(lib, author) ==
    IF Len(author) = 0 THEN <<>>
    ELSE LET author_lower == lower(author)
             Matches(ref) == StrIn(author_lower, lower(BookAt(lib, ref).author))
             found == SelectSeq(values(lib), Matches)
         IN  [k \in DOMAIN found |-> found[Len(found) + 1 - k]]

\* search_by_author
search_by_author(lib, author) ==
    IF Len(author) = 0 THEN <<>>
    ELSE LET author_lower == lower(author)
             Matches(ref) == StrIn(author_lower, lower(BookAt(lib, ref).author))
         IN  SelectSeq(values(lib), Matches)

\* search_by_isbn: a reference or None
search_by_isbn(lib, isbn) == get_book(lib, isbn)

\* search_books, lines 89-91: the loop that appends the books of
\* author_results that are not in results
RECURSIVE ExtendNew(_, _)
ExtendNew(results, author_results) ==
    IF author_results = <<>> THEN results
    ELSE LET book == Head(author_results)
         IN  ExtendNew(IF ~ListContains(results, book)
                       THEN ListAppend(results, book) ELSE results,
                       Tail(author_results))

\* search_books appending every book the author search found
search_books_no_dedup(lib, query, search_type) ==
    IF Len(query) = 0 THEN <<>>
    ELSE LET results1 == IF search_type \in {"all", "title"}
                         THEN search_by_title(lib, query) ELSE <<>>
             results2 == IF search_type \in {"all", "author"}
                         THEN results1 \o search_by_author(lib, query)
                         ELSE results1
             isbn_result == search_by_isbn(lib, query)
         IN  IF /\ search_type \in {"all", "isbn"}
                /\ isbn_result # None
                /\ ~ListContains(results2, isbn_result)
             THEN ListAppend(results2, isbn_result)
             ELSE results2

\* search_books
search_books(lib, query, search_type) ==
    IF Len(query) = 0 THEN <<>>
    ELSE LET results1 == IF search_type \in {"all", "title"}
                         THEN search_by_title(lib, query) ELSE <<>>
             results2 == IF search_type \in {"all", "author"}
                         THEN ExtendNew(results1, search_by_author(lib, query))
                         ELSE results1
             isbn_result == search_by_isbn(lib, query)
         IN  IF /\ search_type \in {"all", "isbn"}
                /\ isbn_result # None
                /\ ~ListContains(results2, isbn_result)
             THEN ListAppend(results2, isbn_result)
             ELSE results2

----------------------------------------------------------------------------
(* src/issue_return.py *)

\* issue_book without 'book.copies -= 1'
issue_book_keeps_copies(lib, isbn, member) ==
    LET book == get_book(lib, isbn)
    IN  IF book = None
        THEN Result(lib, FALSE, MsgBookNotFound)
        ELSE IF lib.books[book].val.copies <= 0
        THEN Result(lib, FALSE, MsgNotAvailable)
        ELSE IF has_book(lib.objs[member], isbn)
        THEN Result(lib, FALSE, MsgAlreadyHas)
        ELSE Result([lib EXCEPT !.objs[member] = borrow_book(@, isbn).m],
                    TRUE, MsgIssued)

\* issue_book without the test 'member.has_book(isbn)'
issue_book_no_held_check(lib, isbn, member) ==
    LET book == get_book(lib, isbn)
    IN  IF book = None
        THEN Result(lib, FALSE, MsgBookNotFound)
        ELSE IF lib.books[book].val.copies <= 0
        THEN Result(lib, FALSE, MsgNotAvailable)
        ELSE Result([lib EXCEPT
                        !.books[book].val.copies = @ - 1,
                        !.objs[member] = borrow_book(@, isbn).m],
                    TRUE, MsgIssued)

\* issue_book without the test 'book.copies <= 0'
issue_book_no_copies_check(lib, isbn, member) ==
    LET book == get_book(lib, isbn)
    IN  IF book = None
        THEN Result(lib, FALSE, MsgBookNotFound)
        ELSE IF has_book(lib.objs[member], isbn)
        THEN Result(lib, FALSE, MsgAlreadyHas)
        ELSE Result([lib EXCEPT
                        !.books[book].val.copies = @ - 1,
                        !.objs[member] = borrow_book(@, isbn).m],
                    TRUE, MsgIssued)

\* issue_book with 'book.copies -= 1' moved before the test
\* 'member.has_book(isbn)'
issue_book_decrements_first(lib, isbn, member) ==
    LET book == get_book(lib, isbn)
    IN  IF book = None
        THEN Result(lib, FALSE, MsgBookNotFound)
        ELSE IF lib.books[book].val.copies <= 0
        THEN Result(lib, FALSE, MsgNotAvailable)
        ELSE IF has_book(lib.objs[member], isbn)
        THEN Result([lib EXCEPT !.books[book].val.copies = @ - 1],
                    FALSE, MsgAlreadyHas)
        ELSE Result([lib EXCEPT
                        !.books[book].val.copies = @ - 1,
                        !.objs[member] = borrow_book(@, isbn).m],
                    TRUE, MsgIssued)

\* issue_book with the test 'book.copies == 0' for 'book.copies <= 0'
issue_book_tests_zero(lib, isbn, member) ==
    LET book == get_book(lib, isbn)
    IN  IF book = None
        THEN Result(lib, FALSE, MsgBookNotFound)
        ELSE IF lib.books[book].val.copies = 0
        THEN Result(lib, FALSE, MsgNotAvailable)
        ELSE IF has_book(lib.objs[member], isbn)
        THEN Result(lib, FALSE, MsgAlreadyHas)
        ELSE Result([lib EXCEPT
                        !.books[book].val.copies = @ - 1,
                        !.objs[member] = borrow_book(@, isbn).m],
                    TRUE, MsgIssued)

\* issue_book(library, isbn, member), member a reference
issue_book(lib, isbn, member) ==
    LET book == get_book(lib, isbn)
    IN  IF book = None
        THEN Result(lib, FALSE, MsgBookNotFound)
        ELSE IF lib.books[book].val.copies <= 0
        THEN Result(lib, FALSE, MsgNotAvailable)
        ELSE IF has_book(lib.objs[member], isbn)
        THEN Result(lib, FALSE, MsgAlreadyHas)
        ELSE Result([lib EXCEPT
                        !.books[book].val.copies = @ - 1,
                        !.objs[member] = borrow_book(@, isbn).m],
                    TRUE, MsgIssued)

\* return_book without the test 'not member.has_book(isbn)'
return_book_no_held_check(lib, isbn, member) ==
    LET book == get_book(lib, isbn)
    IN  IF book = None
        THEN Result(lib, FALSE, MsgBookNotFound)
        ELSE Result([lib EXCEPT
                        !.books[book].val.copies = @ + 1,
                        !.objs[member] = member_return_book(@, isbn).m],
                    TRUE, MsgReturned)

\* return_book without 'member.return_book(isbn)'
return_book_keeps_list(lib, isbn, member) ==
    LET book == get_book(lib, isbn)
    IN  IF book = None
        THEN Result(lib, FALSE, MsgBookNotFound)
        ELSE IF ~has_book(lib.objs[member], isbn)
        THEN Result(lib, FALSE, MsgDoesntHave)
        ELSE Result([lib EXCEPT !.books[book].val.copies = @ + 1],
                    TRUE, MsgReturned)

\* return_book(library, isbn, member), member a reference
return_book(lib, isbn, member) ==
    LET book == get_book(lib, isbn)
    IN  IF book = None
        THEN Result(lib, FALSE, MsgBookNotFound)
        ELSE IF ~has_book(lib.objs[member], isbn)
        THEN Result(lib, FALSE, MsgDoesntHave)
        ELSE Result([lib EXCEPT
                        !.books[book].val.copies = @ + 1,
                        !.objs[member] = member_return_book(@, isbn).m],
                    TRUE, MsgReturned)

\* issue_book_by_id(library, isbn, member_id)
issue_book_by_id(lib, isbn, member_id) ==
    LET member == get_member(lib, member_id)
    IN  IF member = None
        THEN Result(lib, FALSE, MsgMemberNotFound)
        ELSE issue_book(lib, isbn, member)

\* return_book_by_id delegating to issue_book, as issue_book_by_id does
return_book_by_id_issues(lib, isbn, member_id) ==
    LET member == get_member(lib, member_id)
    IN  IF member = None
        THEN Result(lib, FALSE, MsgMemberNotFound)
        ELSE issue_book(lib, isbn, member)

\* return_book_by_id(library, isbn, member_id)
return_book_by_id(lib, isbn, member_id) ==
    LET member == get_member(lib, member_id)
    IN  IF member = None
        THEN Result(lib, FALSE, MsgMemberNotFound)
        ELSE return_book(lib, isbn, member)

----------------------------------------------------------------------------
(* src/auth_system.py: an AuthSystem value is [users, sessions] *)

\* AuthSystem.__init__(session_timeout=30): the timeout of a session, minutes
session_timeout == 30

\* the messages AuthSystem returns
MsgUsernameNotFound == "Username not found"
MsgInvalidPassword  == "Invalid password"
MsgPasswordWrong    == "Current password is incorrect"
MsgPasswordChanged  == "Password changed successfully"

\* what a method returns: the AuthSystem after the call, and the returned value
AuthResult(auth, val) == [auth |-> auth, val |-> val]

\* AuthSystem._hash_password: the SHA-256 digest of the password, which is not
\* the password and differs for the different passwords callers enter
_hash_password(password) == <<"sha256", password>>

\* AuthSystem.add_user when username is new: the record stored
UserRecord(password, role, user_info, clock) ==
    [password   |-> _hash_password(password),
     role       |-> role,
     info       |-> user_info,
     created_at |-> clock,
     last_login |-> None]

\* AuthSystem.add_user without its test for an existing username
add_user_overwrites(auth, username, password, role, user_info, clock) ==
    AuthResult([auth EXCEPT !.users =
                   DictSet(@, username,
                           UserRecord(password, role, user_info, clock))],
               TRUE)

\* AuthSystem.add_user
add_user(auth, username, password, role, user_info, clock) ==
    IF DictHas(auth.users, username)
    THEN AuthResult(auth, FALSE)
    ELSE AuthResult([auth EXCEPT !.users =
                        DictSet(@, username,
                                UserRecord(password, role, user_info, clock))],
                    TRUE)

\* AuthSystem.authenticate that records the login before it tests the password
authenticate_stamps_first(auth, username, password, clock) ==
    IF ~DictHas(auth.users, username)
    THEN AuthResult(auth, <<FALSE, MsgUsernameNotFound>>)
    ELSE LET user == DictGet(auth.users, username)
             stamped == [auth EXCEPT !.users =
                            DictSet(@, username,
                                    [user EXCEPT !.last_login = clock])]
         IN  IF user.password # _hash_password(password)
             THEN AuthResult(stamped, <<FALSE, MsgInvalidPassword>>)
             ELSE AuthResult(stamped,
                             <<TRUE, [username |-> username,
                                      role |-> user.role, info |-> user.info]>>)

\* AuthSystem.authenticate: returns (success, user data or message)
authenticate(auth, username, password, clock) ==
    IF ~DictHas(auth.users, username)
    THEN AuthResult(auth, <<FALSE, MsgUsernameNotFound>>)
    ELSE LET user == DictGet(auth.users, username)
         IN  IF user.password # _hash_password(password)
             THEN AuthResult(auth, <<FALSE, MsgInvalidPassword>>)
             ELSE AuthResult(
                    [auth EXCEPT !.users =
                        DictSet(@, username, [user EXCEPT !.last_login = clock])],
                    <<TRUE, [username |-> username, role |-> user.role,
                             info |-> user.info]>>)

\* AuthSystem.create_session with the timeout left out of the expiry time
create_session_no_timeout(auth, username, session_token, clock) ==
    AuthResult([auth EXCEPT !.sessions =
                   DictSet(@, session_token,
                           [username   |-> username,
                            created_at |-> clock,
                            expires_at |-> clock])],
               session_token)

\* AuthSystem.create_session that creates sessions for stored users only
create_session_checks_user(auth, username, session_token, clock) ==
    IF ~DictHas(auth.users, username)
    THEN AuthResult(auth, None)
    ELSE AuthResult([auth EXCEPT !.sessions =
                        DictSet(@, session_token,
                                [username   |-> username,
                                 created_at |-> clock,
                                 expires_at |-> clock + session_timeout])],
                    session_token)

\* AuthSystem.create_session, session_token being what uuid.uuid4() drew
create_session(auth, username, session_token, clock) ==
    AuthResult([auth EXCEPT !.sessions =
                   DictSet(@, session_token,
                           [username   |-> username,
                            created_at |-> clock,
                            expires_at |-> clock + session_timeout])],
               session_token)

\* AuthSystem.validate_session that leaves an expired session in the store
validate_session_keeps_expired(auth, session_token, clock) ==
    IF ~DictHas(auth.sessions, session_token)
    THEN AuthResult(auth, <<FALSE, None>>)
    ELSE LET session == DictGet(auth.sessions, session_token)
         IN  IF clock > session.expires_at
             THEN AuthResult(auth, <<FALSE, None>>)
             ELSE AuthResult(auth, <<TRUE, session.username>>)

\* AuthSystem.validate_session that renews an expired session it rejects
validate_session_renews_expired(auth, session_token, clock) ==
    IF ~DictHas(auth.sessions, session_token)
    THEN AuthResult(auth, <<FALSE, None>>)
    ELSE LET session == DictGet(auth.sessions, session_token)
         IN  IF clock > session.expires_at
             THEN AuthResult([auth EXCEPT !.sessions =
                                 DictSet(@, session_token,
                                         [session EXCEPT !.expires_at =
                                             clock + session_timeout])],
                             <<FALSE, None>>)
             ELSE AuthResult(auth, <<TRUE, session.username>>)

\* AuthSystem.validate_session: returns (valid, username or None)
validate_session(auth, session_token, clock) ==
    IF ~DictHas(auth.sessions, session_token)
    THEN AuthResult(auth, <<FALSE, None>>)
    ELSE LET session == DictGet(auth.sessions, session_token)
         IN  IF clock > session.expires_at
             THEN AuthResult([auth EXCEPT !.sessions = DictDel(@, session_token)],
                             <<FALSE, None>>)
             ELSE AuthResult(auth, <<TRUE, session.username>>)

\* AuthSystem.logout
logout(auth, session_token) ==
    IF DictHas(auth.sessions, session_token)
    THEN AuthResult([auth EXCEPT !.sessions = DictDel(@, session_token)], TRUE)
    ELSE AuthResult(auth, FALSE)

\* AuthSystem.change_password that reports success and stores nothing
change_password_keeps_password(auth, username, old_password, new_password, clock) ==
    LET a == authenticate(auth, username, old_password, clock)
    IN  IF ~a.val[1]
        THEN AuthResult(a.auth, <<FALSE, MsgPasswordWrong>>)
        ELSE AuthResult(a.auth, <<TRUE, MsgPasswordChanged>>)

\* AuthSystem.change_password that does not verify the current password
change_password_unverified(auth, username, old_password, new_password, clock) ==
    IF ~DictHas(auth.users, username)
    THEN AuthResult(auth, <<FALSE, MsgPasswordWrong>>)
    ELSE AuthResult(
           [auth EXCEPT !.users =
               DictSet(@, username,
                       [DictGet(auth.users, username) EXCEPT
                           !.password = _hash_password(new_password)])],
           <<TRUE, MsgPasswordChanged>>)

\* AuthSystem.change_password that ends the sessions of the user on success
change_password_ends_sessions(auth, username, old_password, new_password, clock) ==
    LET a == authenticate(auth, username, old_password, clock)
        Others(e) == e.val.username # username
    IN  IF ~a.val[1]
        THEN AuthResult(a.auth, <<FALSE, MsgPasswordWrong>>)
        ELSE AuthResult(
               [a.auth EXCEPT !.users =
                   DictSet(@, username,
                           [DictGet(a.auth.users, username) EXCEPT
                               !.password = _hash_password(new_password)]),
                              !.sessions = SelectSeq(@, Others)],
               <<TRUE, MsgPasswordChanged>>)

\* AuthSystem.change_password: returns (success, message)
change_password(auth, username, old_password, new_password, clock) ==
    LET a == authenticate(auth, username, old_password, clock)
    IN  IF ~a.val[1]
        THEN AuthResult(a.auth, <<FALSE, MsgPasswordWrong>>)
        ELSE AuthResult(
               [a.auth EXCEPT !.users =
                   DictSet(@, username,
                           [DictGet(a.auth.users, username) EXCEPT
                               !.password = _hash_password(new_password)])],
               <<TRUE, MsgPasswordChanged>>)

\* AuthSystem.cleanup_expired_sessions that takes a session for expired when
\* the clock has reached its expiry time
cleanup_expired_sessions_at_expiry(auth, clock) ==
    LET Expired(e) == clock >= e.val.expires_at
        Kept(e) == ~Expired(e)
    IN  AuthResult([auth EXCEPT !.sessions = SelectSeq(@, Kept)],
                   Len(SelectSeq(auth.sessions, Expired)))

\* AuthSystem.cleanup_expired_sessions: returns the number of sessions removed
cleanup_expired_sessions(auth, clock) ==
    LET Expired(e) == clock > e.val.expires_at
        Kept(e) == ~Expired(e)
    IN  AuthResult([auth EXCEPT !.sessions = SelectSeq(@, Kept)],
                   Len(SelectSeq(auth.sessions, Expired)))

\* AuthSystem(): the two default users of _setup_default_users, no session
AuthSystem ==
    LET a0 == [users |-> <<>>, sessions |-> <<>>]
        a1 == add_user(a0, "librarian", "admin123", "librarian",
                       "System Librarian", Epoch).auth
    IN  add_user(a1, "member", "member123", "member", "Sample Member",
                 Epoch).auth

----------------------------------------------------------------------------
(* The state machine *)

\* a caller that is in no call
Idle ==
    [pc |-> "idle", op |-> "", isbn |-> <<>>, member |-> None, book |-> None,
     copies |-> 0, ok |-> FALSE, msg |-> ""]

\* the library value held in the state
TheLibrary == [books |-> books, members |-> members, objs |-> member_objs]

\* the references to the Member objects constructed so far
Refs == DOMAIN member_objs

\* the state after a call of op that returned r
Returns(op, r) ==
    /\ books' = r.lib.books
    /\ members' = r.lib.members
    /\ member_objs' = r.lib.objs
    /\ ret' = [op |-> op, ok |-> r.ok, msg |-> r.msg]
    /\ UNCHANGED <<users, sessions, now, minted, callers, lock>>

\* no book of the library holds more than MaxCopies copies
WithinBounds(lib) ==
    \A k \in DOMAIN lib.books : lib.books[k].val.copies <= MaxCopies

Init ==
    /\ books = Library.books
    /\ members = Library.members
    /\ member_objs = Library.objs
    /\ users = AuthSystem.users
    /\ sessions = AuthSystem.sessions
    /\ now = Epoch
    /\ minted = 0
    /\ ret = [op |-> "Library", ok |-> TRUE, msg |-> ""]
    /\ callers = [c \in Callers |-> Idle]
    /\ lock = None

\* a caller constructs Member(member_id, name)
NewMember(member_id) ==
    /\ member_id \in MemberIds
    /\ Len(member_objs) + 1 \in MemberRefs
    /\ Returns("Member",
               Result([TheLibrary EXCEPT !.objs = Append(@, Member(member_id))],
                      TRUE, ""))

\* library.add_book(Book(isbn, title, author, copies))
AddBook(isbn, title, author, copies) ==
    /\ isbn \in ISBNs
    /\ title \in Titles
    /\ author \in Authors
    /\ copies \in CopiesIn
    /\ Returns("add_book",
               add_book(TheLibrary, Book(isbn, title, author, copies)))

\* library.add_book(Book(isbn, title, author, copies)), copies any int
AddBookOf(isbn, copies) ==
    /\ isbn \in ISBNs
    /\ copies \in AnyCopies
    /\ Returns("add_book",
               add_book(TheLibrary,
                        Book(isbn, LendingTitle, LendingAuthor, copies)))

\* library.remove_book(isbn)
RemoveBook(isbn) ==
    /\ isbn \in ISBNs
    /\ Returns("remove_book", remove_book(TheLibrary, isbn))

\* library.add_member(member)
AddMember(member) ==
    /\ member \in Refs
    /\ Returns("add_member", add_member(TheLibrary, member))

\* library.remove_member(member_id)
RemoveMember(member_id) ==
    /\ member_id \in MemberIds
    /\ Returns("remove_member", remove_member(TheLibrary, member_id))

\* member.borrow_book(isbn), called directly
MemberBorrow(member, isbn) ==
    /\ member \in Refs
    /\ isbn \in ISBNs
    /\ LET r == borrow_book(member_objs[member], isbn)
       IN  Returns("Member.borrow_book",
                   Result([TheLibrary EXCEPT !.objs[member] = r.m], r.ok, ""))

\* member.return_book(isbn), called directly
MemberReturn(member, isbn) ==
    /\ member \in Refs
    /\ isbn \in ISBNs
    /\ LET r == member_return_book(member_objs[member], isbn)
       IN  Returns("Member.return_book",
                   Result([TheLibrary EXCEPT !.objs[member] = r.m], r.ok, ""))

\* issue_book(library, isbn, member)
IssueBook(isbn, member) ==
    /\ isbn \in ISBNs
    /\ member \in Refs
    /\ Returns("issue_book", issue_book(TheLibrary, isbn, member))

\* return_book(library, isbn, member)
ReturnBook(isbn, member) ==
    /\ isbn \in ISBNs
    /\ member \in Refs
    /\ WithinBounds(return_book(TheLibrary, isbn, member).lib)
    /\ Returns("return_book", return_book(TheLibrary, isbn, member))

\* issue_book_by_id(library, isbn, member_id)
IssueBookById(isbn, member_id) ==
    /\ isbn \in ISBNs
    /\ member_id \in MemberIds
    /\ Returns("issue_book_by_id",
               issue_book_by_id(TheLibrary, isbn, member_id))

\* return_book_by_id(library, isbn, member_id)
ReturnBookById(isbn, member_id) ==
    /\ isbn \in ISBNs
    /\ member_id \in MemberIds
    /\ WithinBounds(return_book_by_id(TheLibrary, isbn, member_id).lib)
    /\ Returns("return_book_by_id",
               return_book_by_id(TheLibrary, isbn, member_id))

\* the state after a search that returned the list val
Found(op, args, val) ==
    /\ ret' = [op |-> op, args |-> args, val |-> val]
    /\ UNCHANGED <<books, members, member_objs, users, sessions, now, minted,
                   callers, lock>>

\* library.get_library_stats()
GetLibraryStats ==
    /\ Found("get_library_stats", <<>>, get_library_stats(TheLibrary))

\* search_by_title(library, title)
SearchByTitle(title) ==
    /\ title \in Queries
    /\ Found("search_by_title", <<title>>, search_by_title(TheLibrary, title))

\* search_books(library, query, search_type)
SearchBooks(query, search_type) ==
    /\ query \in Queries
    /\ search_type \in SearchTypes
    /\ Found("search_books", <<query, search_type>>,
             search_books(TheLibrary, query, search_type))

\* the AuthSystem value held in the state
TheAuth == [users |-> users, sessions |-> sessions]

\* an AuthSystem whose methods clear the catalog they are used with
AuthReturns_clears_catalog(op, r) ==
    /\ users' = r.auth.users
    /\ sessions' = r.auth.sessions
    /\ ret' = [op |-> op, val |-> r.val]
    /\ books' = <<>>
    /\ UNCHANGED <<members, member_objs, callers, lock>>

\* the state after a call of the AuthSystem method op that returned r
AuthReturns(op, r) ==
    /\ users' = r.auth.users
    /\ sessions' = r.auth.sessions
    /\ ret' = [op |-> op, val |-> r.val]
    /\ UNCHANGED <<books, members, member_objs, callers, lock>>

\* time passes: the clock moves on to a later value
Tick(clock) ==
    /\ clock \in ClockValues
    /\ clock > now
    /\ now' = clock
    /\ UNCHANGED <<books, members, member_objs, users, sessions, minted, ret,
                   callers, lock>>

\* auth_system.add_user(username, password, role)
AddUser(username, password, role) ==
    /\ username \in Usernames
    /\ password \in Passwords
    /\ role \in Roles
    /\ AuthReturns("add_user",
                   add_user(TheAuth, username, password, role, "{}", now))
    /\ UNCHANGED <<now, minted>>

\* auth_system.authenticate(username, password)
Authenticate(username, password) ==
    /\ username \in Usernames
    /\ password \in Passwords
    /\ AuthReturns("authenticate",
                   authenticate(TheAuth, username, password, now))
    /\ UNCHANGED <<now, minted>>

\* auth_system.change_password(username, old_password, new_password)
ChangePassword(username, old_password, new_password) ==
    /\ username \in Usernames
    /\ old_password \in Passwords
    /\ new_password \in Passwords
    /\ AuthReturns("change_password",
                   change_password(TheAuth, username, old_password,
                                   new_password, now))
    /\ UNCHANGED <<now, minted>>

\* auth_system.create_session(username): uuid.uuid4() draws the next token
CreateSession(username) ==
    /\ username \in SessionUsernames
    /\ minted < MaxTokens
    /\ minted' = minted + 1
    /\ AuthReturns("create_session",
                   create_session(TheAuth, username, minted + 1, now))
    /\ UNCHANGED now

\* LoginWindow.login of src/library_gui.py: authenticate, and on success
\* create_session for the username entered
Login(username, password) ==
    /\ username \in Usernames
    /\ password \in Passwords
    /\ minted < MaxLogins
    /\ LET a == authenticate(TheAuth, username, password, now)
       IN  IF a.val[1]
           THEN /\ AuthReturns("login",
                               create_session(a.auth, username, minted + 1, now))
                /\ minted' = minted + 1
           ELSE /\ AuthReturns("login", a)
                /\ minted' = minted
    /\ UNCHANGED now

\* auth_system.validate_session(session_token)
ValidateSession(session_token) ==
    /\ session_token \in Tokens
    /\ AuthReturns("validate_session",
                   validate_session(TheAuth, session_token, now))
    /\ UNCHANGED <<now, minted>>

\* auth_system.logout(session_token)
Logout(session_token) ==
    /\ session_token \in Tokens
    /\ AuthReturns("logout", logout(TheAuth, session_token))
    /\ UNCHANGED <<now, minted>>

\* auth_system.cleanup_expired_sessions()
CleanupExpiredSessions ==
    /\ AuthReturns("cleanup_expired_sessions",
                   cleanup_expired_sessions(TheAuth, now))
    /\ UNCHANGED <<now, minted>>

\* The catalog driven with Member objects, as src/test.py drives it: callers
\* construct Members, add and remove books and members, and issue and return
\* books to the Member objects they hold, whether stored in the catalog or not.
Next ==
    \/ \E member_id \in MemberIds : NewMember(member_id)
    \/ \E isbn \in ISBNs, copies \in CopiesIn :
            AddBook(isbn, LendingTitle, LendingAuthor, copies)
    \/ \E isbn \in ISBNs : RemoveBook(isbn)
    \/ \E member \in MemberRefs : AddMember(member)
    \/ \E member_id \in MemberIds : RemoveMember(member_id)
    \/ \E isbn \in ISBNs, member \in MemberRefs : IssueBook(isbn, member)
    \/ \E isbn \in ISBNs, member \in MemberRefs : ReturnBook(isbn, member)

Spec == Init /\ [][Next]_vars

\* The catalog driven through member ids, as the forms of src/library_gui.py
\* drive it: books are issued and returned by member id.  Every library it
\* reaches is reached under Spec too, by the same calls made with the Member
\* stored under the id.
NextById ==
    \/ \E member_id \in MemberIds : NewMember(member_id)
    \/ \E isbn \in ISBNs, copies \in CopiesIn :
            AddBook(isbn, LendingTitle, LendingAuthor, copies)
    \/ \E isbn \in ISBNs : RemoveBook(isbn)
    \/ \E member \in MemberRefs : AddMember(member)
    \/ \E member_id \in MemberIds : RemoveMember(member_id)
    \/ \E isbn \in ISBNs, member_id \in MemberIds : IssueBookById(isbn, member_id)
    \/ \E isbn \in ISBNs, member_id \in MemberIds : ReturnBookById(isbn, member_id)
    \/ GetLibraryStats

SpecById == Init /\ [][NextById]_vars

\* Member objects used directly: callers call Member.borrow_book and
\* Member.return_book themselves, next to issue_book and return_book.
NextMember ==
    \/ \E member_id \in MemberIds : NewMember(member_id)
    \/ \E isbn \in ISBNs, copies \in CopiesIn :
            AddBook(isbn, LendingTitle, LendingAuthor, copies)
    \/ \E member \in MemberRefs, isbn \in ISBNs : MemberBorrow(member, isbn)
    \/ \E member \in MemberRefs, isbn \in ISBNs : MemberReturn(member, isbn)
    \/ \E isbn \in ISBNs, member \in MemberRefs : IssueBook(isbn, member)
    \/ \E isbn \in ISBNs, member \in MemberRefs : ReturnBook(isbn, member)

SpecMember == Init /\ [][NextMember]_vars

\* The catalog searched, as TestSearch of src/test.py drives it: books with
\* titles and authors are added and removed, and the catalog is searched.
NextSearch ==
    \/ \E isbn \in ISBNs, title \in Titles, author \in Authors,
          copies \in CopiesIn : AddBook(isbn, title, author, copies)
    \/ \E isbn \in ISBNs : RemoveBook(isbn)
    \/ \E title \in Queries : SearchByTitle(title)
    \/ \E query \in Queries, search_type \in SearchTypes :
            SearchBooks(query, search_type)

SpecSearch == Init /\ [][NextSearch]_vars

\* The credential store, as TestAuthSystem of src/test.py and the login
\* window of src/library_gui.py drive it: users are added, authenticate,
\* change their passwords, log in and log out while time passes.
NextAuth ==
    \/ \E clock \in LoginClockValues : Tick(clock)
    \/ \E username \in Usernames, password \in Passwords, role \in Roles :
            AddUser(username, password, role)
    \/ \E username \in Usernames, password \in Passwords :
            Authenticate(username, password)
    \/ \E username \in Usernames, old_password \in Passwords,
          new_password \in Passwords :
            ChangePassword(username, old_password, new_password)
    \/ \E username \in Usernames, password \in Passwords :
            Login(username, password)
    \/ \E session_token \in Tokens : Logout(session_token)

SpecAuth == Init /\ [][NextAuth]_vars

\* The session store: sessions are created, validated, logged out and swept
\* while time passes.
NextSession ==
    \/ \E clock \in ClockValues : Tick(clock)
    \/ \E username \in SessionUsernames : CreateSession(username)
    \/ \E session_token \in Tokens : ValidateSession(session_token)
    \/ \E session_token \in Tokens : Logout(session_token)
    \/ CleanupExpiredSessions

SpecSession == Init /\ [][NextSession]_vars

\* One librarian at the desk, as LibraryGUI of src/library_gui.py is used: the
\* librarian logs in, works on one book and one member of the catalog,
\* searches, looks at the statistics, manages users and logs out, while
\* sessions are validated and swept.
NextDesk ==
    \/ \E clock \in DeskClockValues : Tick(clock)
    \/ \E username \in {"newuser"}, password \in {"newpassword"},
          role \in {"member"} : AddUser(username, password, role)
    \/ \E username \in {"librarian"}, password \in Passwords :
            Authenticate(username, password)
    \/ \E username \in {"librarian"}, old_password \in Passwords,
          new_password \in Passwords :
            ChangePassword(username, old_password, new_password)
    \/ \E username \in {"librarian"}, password \in {"admin123"} :
            Login(username, password)
    \/ \E session_token \in {1} : ValidateSession(session_token)
    \/ \E session_token \in {1} : Logout(session_token)
    \/ CleanupExpiredSessions
    \/ \E member_id \in {"M1"} : NewMember(member_id)
    \/ \E isbn \in {<<"a">>}, copies \in {1} :
            AddBook(isbn, LendingTitle, LendingAuthor, copies)
    \/ \E isbn \in {<<"a">>} : RemoveBook(isbn)
    \/ \E member \in {1} : AddMember(member)
    \/ \E isbn \in {<<"a">>}, member_id \in {"M1"} :
            IssueBookById(isbn, member_id)
    \/ \E isbn \in {<<"a">>}, member_id \in {"M1"} :
            ReturnBookById(isbn, member_id)
    \/ \E query \in {<<"a">>}, search_type \in {"all"} :
            SearchBooks(query, search_type)
    \/ GetLibraryStats

SpecDesk == Init /\ [][NextDesk]_vars

\* issue_book called for books entered with any number of copies: callers
\* construct Members, add books, also anew and with copies <= 0, and issue.
NextIssue ==
    \/ \E member_id \in MemberIds : NewMember(member_id)
    \/ \E isbn \in ISBNs, copies \in AnyCopies : AddBookOf(isbn, copies)
    \/ \E isbn \in ISBNs, member \in MemberRefs : IssueBook(isbn, member)

SpecIssue == Init /\ [][NextIssue]_vars

----------------------------------------------------------------------------
(* src/issue_return.py run by several callers at once: each statement of
   issue_book and return_book is one step of the caller that runs it *)

\* the frame of a call of op(library, isbn, member) that has just been entered
Frame(op, isbn, member) ==
    [Idle EXCEPT !.pc = "get_book", !.op = op, !.isbn = isbn,
                 !.member = member]

\* the frame of a call that has reached its return statement
Returning(frame, ok, msg) ==
    [frame EXCEPT !.pc = "return", !.ok = ok, !.msg = msg]

\* the state after caller c has run one statement that left its frame as
\* frame and changed nothing but its local variables
Local(c, frame) ==
    /\ callers' = [callers EXCEPT ![c] = frame]
    /\ UNCHANGED <<books, members, member_objs, users, sessions, now, minted,
                   ret, lock>>

\* the references of the Member objects stored in the catalog
Enrolled == {members[k].val : k \in DOMAIN members}

\* library.add_member(Member(member_id, name)) for a member id not yet stored,
\* as the setUp of TestIssueReturn enrols its member
Enrol(member_id) ==
    /\ member_id \in MemberIds
    /\ ~DictHas(members, member_id)
    /\ Len(member_objs) + 1 \in MemberRefs
    /\ LET lib == [TheLibrary EXCEPT !.objs = Append(@, Member(member_id))]
       IN  Returns("add_member", add_member(lib, Len(lib.objs)))

\* library.add_book(Book(isbn, title, author, StockCopies)) for an ISBN not yet
\* stored, as the setUp of TestIssueReturn stocks its book
Stock(isbn) ==
    /\ isbn \in ISBNs
    /\ ~DictHas(books, isbn)
    /\ Returns("add_book",
               add_book(TheLibrary,
                        Book(isbn, LendingTitle, LendingAuthor, StockCopies)))

\* caller c enters issue_book(library, isbn, member) without any lock
Begin(c, isbn, member) ==
    /\ c \in Callers
    /\ isbn \in ISBNs
    /\ member \in Enrolled
    /\ callers[c].pc = "idle"
    /\ Local(c, Frame("issue_book", isbn, member))

\* a caller that enters op(library, isbn, member) and marks the lock as its
\* own without waiting for the lock to be free
Acquire_without_waiting(c, op, isbn, member) ==
    /\ c \in Callers
    /\ op \in {"issue_book", "return_book"}
    /\ isbn \in ISBNs
    /\ member \in Enrolled
    /\ callers[c].pc = "idle"
    /\ lock' = c
    /\ callers' = [callers EXCEPT ![c] = Frame(op, isbn, member)]
    /\ UNCHANGED <<books, members, member_objs, users, sessions, now, minted,
                   ret>>

\* caller c takes the exclusive lock on the catalog and enters
\* op(library, isbn, member)
Acquire(c, op, isbn, member) ==
    /\ c \in Callers
    /\ op \in {"issue_book", "return_book"}
    /\ isbn \in ISBNs
    /\ member \in Enrolled
    /\ callers[c].pc = "idle"
    /\ lock = None
    /\ lock' = c
    /\ callers' = [callers EXCEPT ![c] = Frame(op, isbn, member)]
    /\ UNCHANGED <<books, members, member_objs, users, sessions, now, minted,
                   ret>>

\* book = library.get_book(isbn); if not book: return False, "... not found"
GetBook(c) ==
    /\ c \in Callers
    /\ callers[c].pc = "get_book"
    /\ LET f == callers[c]
           book == get_book(TheLibrary, f.isbn)
       IN  Local(c, IF book = None
                    THEN Returning(f, FALSE, MsgBookNotFound)
                    ELSE [f EXCEPT !.book = book,
                                   !.pc = IF f.op = "issue_book" THEN "copies"
                                          ELSE "has_book"])

\* if book.copies <= 0: return False, "... is not available"
CheckCopies(c) ==
    /\ c \in Callers
    /\ callers[c].pc = "copies"
    /\ LET f == callers[c]
       IN  Local(c, IF books[f.book].val.copies <= 0
                    THEN Returning(f, FALSE, MsgNotAvailable)
                    ELSE [f EXCEPT !.pc = "has_book"])

\* issue_book: if member.has_book(isbn): return False, "... already has"
\* return_book: if not member.has_book(isbn): return False, "... doesn't have"
CheckHeld(c) ==
    /\ c \in Callers
    /\ callers[c].pc = "has_book"
    /\ LET f == callers[c]
           held == has_book(member_objs[f.member], f.isbn)
       IN  Local(c, IF f.op = "issue_book" /\ held
                    THEN Returning(f, FALSE, MsgAlreadyHas)
                    ELSE IF f.op = "return_book" /\ ~held
                    THEN Returning(f, FALSE, MsgDoesntHave)
                    ELSE [f EXCEPT !.pc = "read"])

\* book.copies -= 1 / book.copies += 1, first half: book.copies is read
ReadCopies(c) ==
    /\ c \in Callers
    /\ callers[c].pc = "read"
    /\ LET f == callers[c]
       IN  Local(c, [f EXCEPT !.copies = books[f.book].val.copies,
                              !.pc = "write"])

\* a book.copies -= 1 / += 1 that is one indivisible step on the stored value
WriteCopies_indivisible(c) ==
    /\ c \in Callers
    /\ callers[c].pc = "write"
    /\ LET f == callers[c]
       IN  /\ books' = [books EXCEPT ![f.book].val.copies =
                            IF f.op = "issue_book" THEN @ - 1 ELSE @ + 1]
           /\ callers' = [callers EXCEPT ![c].pc = "member"]
    /\ UNCHANGED <<members, member_objs, users, sessions, now, minted, ret,
                   lock>>

\* book.copies -= 1 / book.copies += 1, second half: the value read, less or
\* plus one, is stored
WriteCopies(c) ==
    /\ c \in Callers
    /\ callers[c].pc = "write"
    /\ LET f == callers[c]
       IN  /\ books' = [books EXCEPT ![f.book].val.copies =
                            IF f.op = "issue_book" THEN f.copies - 1
                            ELSE f.copies + 1]
           /\ callers' = [callers EXCEPT ![c].pc = "member"]
    /\ UNCHANGED <<members, member_objs, users, sessions, now, minted, ret,
                   lock>>

\* member.borrow_book(isbn) / member.return_book(isbn), and the return
\* statement is reached
UpdateMember(c) ==
    /\ c \in Callers
    /\ callers[c].pc = "member"
    /\ LET f == callers[c]
       IN  /\ member_objs' =
                [member_objs EXCEPT ![f.member] =
                    IF f.op = "issue_book" THEN borrow_book(@, f.isbn).m
                    ELSE member_return_book(@, f.isbn).m]
           /\ callers' =
                [callers EXCEPT ![c] =
                    Returning(f, TRUE, IF f.op = "issue_book" THEN MsgIssued
                                       ELSE MsgReturned)]
    /\ UNCHANGED <<books, members, users, sessions, now, minted, ret, lock>>

\* return success, message: the call made without a lock returns
Finish(c) ==
    /\ c \in Callers
    /\ callers[c].pc = "return"
    /\ ret' = [op |-> callers[c].op, ok |-> callers[c].ok,
               msg |-> callers[c].msg]
    /\ callers' = [callers EXCEPT ![c] = Idle]
    /\ UNCHANGED <<books, members, member_objs, users, sessions, now, minted,
                   lock>>

\* return success, message: the call returns and the caller gives up the lock
Release(c) ==
    /\ c \in Callers
    /\ callers[c].pc = "return"
    /\ lock = c
    /\ lock' = None
    /\ ret' = [op |-> callers[c].op, ok |-> callers[c].ok,
               msg |-> callers[c].msg]
    /\ callers' = [callers EXCEPT ![c] = Idle]
    /\ UNCHANGED <<books, members, member_objs, users, sessions, now, minted>>

\* Callers that issue and return the books of the catalog at the same time,
\* each call made entirely while holding the one lock on the catalog.
NextLocked ==
    \/ \E member_id \in MemberIds : Enrol(member_id)
    \/ \E isbn \in ISBNs : Stock(isbn)
    \/ \E c \in Callers, op \in {"issue_book", "return_book"}, isbn \in ISBNs,
          member \in MemberRefs : Acquire(c, op, isbn, member)
    \/ \E c \in Callers : GetBook(c)
    \/ \E c \in Callers : CheckCopies(c)
    \/ \E c \in Callers : CheckHeld(c)
    \/ \E c \in Callers : ReadCopies(c)
    \/ \E c \in Callers : WriteCopies(c)
    \/ \E c \in Callers : UpdateMember(c)
    \/ \E c \in Callers : Release(c)

SpecLocked == Init /\ [][NextLocked]_vars

\* Callers that issue the one book of the catalog at the same time without
\* any lock: the statements of their calls interleave in every order.
NextRace ==
    \/ \E member_id \in MemberIds : Enrol(member_id)
    \/ \E isbn \in {<<"a">>} : Stock(isbn)
    \/ \E c \in Callers, isbn \in {<<"a">>}, member \in MemberRefs :
            Begin(c, isbn, member)
    \/ \E c \in Callers : GetBook(c)
    \/ \E c \in Callers : CheckCopies(c)
    \/ \E c \in Callers : CheckHeld(c)
    \/ \E c \in Callers : ReadCopies(c)
    \/ \E c \in Callers : WriteCopies(c)
    \/ \E c \in Callers : UpdateMember(c)
    \/ \E c \in Callers : Finish(c)

SpecRace == Init /\ [][NextRace]_vars

----------------------------------------------------------------------------
(* Vocabulary of the properties *)

\* the references stored in the catalog of lib
CatalogRefs(lib) == {lib.members[k].val : k \in DOMAIN lib.members}

\* the copies of the catalog book isbn
Copies(lib, isbn) ==
    LET k == CHOOSE j \in DOMAIN lib.books : lib.books[j].key = isbn
    IN  lib.books[k].val.copies

\* whether the Member object member holds isbn
Holds(lib, member, isbn) ==
    \E j \in DOMAIN lib.objs[member].borrowed_books :
        lib.objs[member].borrowed_books[j] = isbn

\* the catalog members (their ids) holding isbn
Holders(lib, isbn) ==
    {lib.members[k].key : k \in
        {j \in DOMAIN lib.members : Holds(lib, lib.members[j].val, isbn)}}

\* book.copies + the number of catalog members holding the ISBN
Total(lib, isbn) == Copies(lib, isbn) + Cardinality(Holders(lib, isbn))

\* the ISBNs of the catalog
CatalogIsbns(lib) == {lib.books[k].key : k \in DOMAIN lib.books}

\* P holds of what each lending call made now for the Member objects of
\* refs, or for any member id, would return
ForEachLending(refs, P(_)) ==
    \A isbn \in ISBNs :
        /\ \A member \in refs :
               \A r \in {issue_book(TheLibrary, isbn, member),
                          return_book(TheLibrary, isbn, member)} : P(r)
        /\ \A member_id \in MemberIds :
               \A r \in {issue_book_by_id(TheLibrary, isbn, member_id),
                          return_book_by_id(TheLibrary, isbn, member_id)} : P(r)

\* the operations of the issue/return workflow
LendingOps ==
    {"issue_book", "return_book", "issue_book_by_id", "return_book_by_id"}

----------------------------------------------------------------------------
(* C1 *)

\* C1: conservation under lending.  In every reachable state, whatever lending
\* call (issue_book, return_book, issue_book_by_id, return_book_by_id;
\* succeeding or failing) is made next for a member of the catalog, the
\* catalog keeps its books and members and, for every ISBN of the catalog,
\* copies + (number of catalog members holding it) is what it was before the
\* call.  By induction over the calls, the sum stays at its initial value
\* along any sequence of lending calls.
C1_ConservationUnderLending ==
    LET Conserved(r) ==
            /\ CatalogIsbns(r.lib) = CatalogIsbns(TheLibrary)
            /\ r.lib.members = members
            /\ \A isbn \in CatalogIsbns(TheLibrary) :
                   Total(r.lib, isbn) = Total(TheLibrary, isbn)
    IN  ForEachLending(CatalogRefs(TheLibrary), Conserved)

\* a return for a catalog member succeeded while a catalog member holds a
\* catalog book and copies of it remain
C1_Witness ==
    /\ ret.op = "return_book"
    /\ ret.ok
    /\ \E isbn \in CatalogIsbns(TheLibrary) :
           /\ Holders(TheLibrary, isbn) # {}
           /\ Copies(TheLibrary, isbn) > 0

----------------------------------------------------------------------------
(* C2 *)

\* C2, as claimed: for any catalog book with copies > 0 and any member not
\* holding it, issuing the ISBN to the member twice in a row succeeds the first
\* time, fails the second time with 'already has this book', and copies is
\* decremented exactly once.
C2_SecondIssueAlreadyHeld ==
    \A isbn \in CatalogIsbns(TheLibrary), member \in Refs :
        (Copies(TheLibrary, isbn) > 0 /\ ~Holds(TheLibrary, member, isbn)) =>
            LET r1 == issue_book(TheLibrary, isbn, member)
                r2 == issue_book(r1.lib, isbn, member)
            IN  /\ r1.ok
                /\ ~r2.ok
                /\ r2.msg = MsgAlreadyHas
                /\ Copies(r2.lib, isbn) = Copies(TheLibrary, isbn) - 1

\* C2, amended: under the same precondition the first issue succeeds, the
\* second fails and changes nothing, and copies is decremented exactly once;
\* the second failure reads 'already has this book' when the book had at least
\* two copies, and 'is not available' when it had exactly one (the first issue
\* took the last copy, and availability is checked first).
C2_SecondIssueFails ==
    \A isbn \in CatalogIsbns(TheLibrary), member \in Refs :
        (Copies(TheLibrary, isbn) > 0 /\ ~Holds(TheLibrary, member, isbn)) =>
            LET r1 == issue_book(TheLibrary, isbn, member)
                r2 == issue_book(r1.lib, isbn, member)
            IN  /\ r1.ok
                /\ ~r2.ok
                /\ r2.msg = IF Copies(TheLibrary, isbn) >= 2
                            THEN MsgAlreadyHas ELSE MsgNotAvailable
                /\ r2.lib = r1.lib
                /\ Copies(r2.lib, isbn) = Copies(TheLibrary, isbn) - 1

\* an issue was refused because the member already has the book
C2_Witness ==
    /\ ret.op = "issue_book"
    /\ ~ret.ok
    /\ ret.msg = MsgAlreadyHas
    /\ \E isbn \in CatalogIsbns(TheLibrary), member \in Refs :
           Holds(TheLibrary, member, isbn) /\ Copies(TheLibrary, isbn) > 0

----------------------------------------------------------------------------
(* C3 *)

\* C3, as claimed: return_book for any ISBN the member does not hold fails with
\* "doesn't have this book" and changes no copies and no borrowed list.
C3_ReturnNotHeld ==
    \A isbn \in ISBNs, member \in Refs :
        ~Holds(TheLibrary, member, isbn) =>
            return_book(TheLibrary, isbn, member)
                = Result(TheLibrary, FALSE, MsgDoesntHave)

\* C3, amended: return_book for an ISBN the member does not hold fails and
\* changes nothing; the reason is "doesn't have this book" when the ISBN is
\* that of a catalog book, and 'not found in library' when it is not.
C3_ReturnNotHeldFails ==
    \A isbn \in ISBNs, member \in Refs :
        ~Holds(TheLibrary, member, isbn) =>
            return_book(TheLibrary, isbn, member)
                = Result(TheLibrary, FALSE,
                         IF isbn \in CatalogIsbns(TheLibrary)
                         THEN MsgDoesntHave ELSE MsgBookNotFound)

\* a return was refused because the member does not have the book
C3_Witness ==
    /\ ret.op = "return_book"
    /\ ~ret.ok
    /\ ret.msg = MsgDoesntHave

----------------------------------------------------------------------------
(* C4 *)

\* C4: issue-then-return is an identity.  From any reachable state in which
\* issue_book(isbn, member) succeeds, return_book(isbn, member) made right
\* after it succeeds too, and leaves the library exactly as it was before the
\* issue: the book's copies, the member's borrowed list (contents and order),
\* every other book and every other member.
C4_IssueThenReturnIdentity ==
    \A isbn \in ISBNs, member \in Refs :
        LET r1 == issue_book(TheLibrary, isbn, member)
        IN  r1.ok =>
                LET r2 == return_book(r1.lib, isbn, member)
                IN  /\ r2.ok
                    /\ r2.msg = MsgReturned
                    /\ r2.lib = TheLibrary

\* a return succeeded and left a member that still holds another book (so the
\* order of the borrowed list is at stake)
C4_Witness ==
    /\ ret.op = "return_book"
    /\ ret.ok
    /\ \E member \in Refs : member_objs[member].borrowed_books # <<>>

----------------------------------------------------------------------------
(* C5 *)

\* C5: failures are side-effect-free.  In every reachable state, every lending
\* call (for any ISBN, any Member object, any member id) that fails, whatever
\* the reason, returns the library as it was: same books, same members, same
\* copies, same borrowed lists.
C5_FailuresChangeNothing ==
    LET Harmless(r) == ~r.ok => r.lib = TheLibrary
    IN  ForEachLending(Refs, Harmless)

\* a lending call has just failed in a library with a book and a member
C5_Witness ==
    /\ ret.op \in LendingOps
    /\ ~ret.ok
    /\ books # <<>>
    /\ members # <<>>

----------------------------------------------------------------------------
(* C6 *)

\* lib2 is lib but for the copies of isbn, changed by delta, and the borrowed
\* list of member, now list
OnlyPairChanged(lib, lib2, isbn, member, delta, list) ==
    /\ lib2.members = lib.members
    /\ DOMAIN lib2.books = DOMAIN lib.books
    /\ \A k \in DOMAIN lib.books :
           /\ lib2.books[k].key = lib.books[k].key
           /\ lib2.books[k].val.isbn = lib.books[k].val.isbn
           /\ lib2.books[k].val.copies =
                  IF lib.books[k].key = isbn
                  THEN lib.books[k].val.copies + delta
                  ELSE lib.books[k].val.copies
    /\ DOMAIN lib2.objs = DOMAIN lib.objs
    /\ \A other \in DOMAIN lib.objs :
           other # member => lib2.objs[other] = lib.objs[other]
    /\ lib2.objs[member].member_id = lib.objs[member].member_id
    /\ lib2.objs[member].borrowed_books = list

\* the list without isbn, the order of the rest kept
Without(list, isbn) ==
    LET Keep(x) == x # isbn
    IN  SelectSeq(list, Keep)

\* C6: step effect of a successful lending operation.  A successful
\* issue_book(isbn, member) changes exactly the book's copies (one less) and
\* the member's borrowed list (isbn added at its end); a successful
\* return_book(isbn, member) changes exactly the book's copies (one more) and
\* the member's borrowed list (isbn removed, the rest in order); every other
\* book, every other member and the catalog's maps are unchanged.
C6_StepEffect ==
    \A isbn \in ISBNs, member \in Refs :
        LET i == issue_book(TheLibrary, isbn, member)
            r == return_book(TheLibrary, isbn, member)
            list == member_objs[member].borrowed_books
        IN  /\ i.ok => OnlyPairChanged(TheLibrary, i.lib, isbn, member, 0 - 1,
                                       list \o <<isbn>>)
            /\ r.ok => OnlyPairChanged(TheLibrary, r.lib, isbn, member, 1,
                                       Without(list, isbn))

\* an issue succeeded in a library with two books and two Member objects
C6_Witness ==
    /\ ret.op = "issue_book"
    /\ ret.ok
    /\ Len(books) = 2
    /\ Len(member_objs) = 2

----------------------------------------------------------------------------
(* C7 *)

\* C7: copies never go negative.  Every book being entered with copies >= 0
\* (add_book enters 0 .. MaxCopies), every book of the catalog has
\* copies >= 0 in every reachable state.
C7_CopiesNeverNegative ==
    \A k \in DOMAIN books : books[k].val.copies >= 0

\* an issue was refused for want of copies, the book standing at 0
C7_Witness ==
    /\ ret.op = "issue_book"
    /\ ~ret.ok
    /\ ret.msg = MsgNotAvailable
    /\ \E k \in DOMAIN books : books[k].val.copies = 0

----------------------------------------------------------------------------
(* C8 *)

\* C8: a borrowed list never holds an ISBN twice.  In every reachable state
\* (reached by Member.borrow_book, Member.return_book, issue_book, return_book
\* and the other operations) each ISBN occurs at most once in each Member's
\* borrowed_books, and borrow_book of an ISBN already held returns False and
\* leaves the Member as it is.
C8_NoDuplicateBorrow ==
    \A member \in Refs :
        LET list == member_objs[member].borrowed_books
        IN  /\ \A a, b \in DOMAIN list : list[a] = list[b] => a = b
            /\ \A isbn \in ISBNs :
                   (\E a \in DOMAIN list : list[a] = isbn) =>
                       LET r == borrow_book(member_objs[member], isbn)
                       IN  ~r.ok /\ r.m = member_objs[member]

\* borrow_book has just been refused
C8_Witness ==
    /\ ret.op = "Member.borrow_book"
    /\ ~ret.ok

----------------------------------------------------------------------------
(* C9 *)

\* C9: the id-based wrappers.  For a member_id that is not a key of the
\* catalog, issue_book_by_id and return_book_by_id fail with 'Member with ID
\* ... not found' and change nothing, whether or not the ISBN is in the
\* catalog; for a member_id stored in the catalog, they return what
\* issue_book and return_book return for the Member stored under that id:
\* same success, same message, same library afterwards.
C9_ByIdWrappers ==
    \A isbn \in ISBNs :
        /\ \A member_id \in MemberIds :
               (\A k \in DOMAIN members : members[k].key # member_id) =>
                   /\ issue_book_by_id(TheLibrary, isbn, member_id)
                          = Result(TheLibrary, FALSE, MsgMemberNotFound)
                   /\ return_book_by_id(TheLibrary, isbn, member_id)
                          = Result(TheLibrary, FALSE, MsgMemberNotFound)
        /\ \A k \in DOMAIN members :
               /\ issue_book_by_id(TheLibrary, isbn, members[k].key)
                      = issue_book(TheLibrary, isbn, members[k].val)
               /\ return_book_by_id(TheLibrary, isbn, members[k].key)
                      = return_book(TheLibrary, isbn, members[k].val)

\* a wrapper has reported an unknown member while the catalog is empty of
\* books (the ISBN is absent too) but not of members
C9_Witness ==
    /\ ret.op \in {"issue_book_by_id", "return_book_by_id"}
    /\ ~ret.ok
    /\ ret.msg = MsgMemberNotFound
    /\ books = <<>>
    /\ members # <<>>

----------------------------------------------------------------------------
(* C10 *)

\* C10: conservation across member administration.  In every reachable state,
\* neither add_member (of any Member, also one whose member_id is already a
\* key) nor remove_member changes, for any ISBN of the catalog,
\* copies + (number of catalog members holding it).
C10_MemberAdminConserves ==
    LET Conserved(r) ==
            \A isbn \in CatalogIsbns(TheLibrary) :
                Total(r.lib, isbn) = Total(TheLibrary, isbn)
    IN  /\ \A member \in Refs : Conserved(add_member(TheLibrary, member))
        /\ \A member_id \in MemberIds :
               Conserved(remove_member(TheLibrary, member_id))

----------------------------------------------------------------------------
(* Sessions *)

\* the tokens uuid.uuid4 has drawn, and the one it draws next
Drawn == 1 .. minted
NextToken == minted + 1

\* the clock values from clock on
From(clock) == {c \in ClockValues : c >= clock}

\* what validate_session(token) returns in the state
Validates(token) == validate_session(TheAuth, token, now).val

\* the time at which the session stored under token expires
ExpiresAt(token) == DictGet(sessions, token).expires_at

\* the step removed the session of token by a logout or a cleanup
RemovedByCall(token) ==
    /\ DictHas(sessions, token)
    /\ ~DictHas(sessions', token)
    /\ ret'.op \in {"logout", "cleanup_expired_sessions"}

\* a session just created for username under token is valid at the clock
\* values up to clock + session_timeout and invalid after them, and invalid
\* at every clock value once logout(token) has been called
LifecycleFrom(auth, username, token, clock) ==
    /\ \A c \in From(clock) :
          validate_session(auth, token, c).val =
            IF c <= clock + session_timeout THEN <<TRUE, username>>
            ELSE <<FALSE, None>>
    /\ \A c \in From(clock) :
          validate_session(logout(auth, token).auth, token, c).val
            = <<FALSE, None>>

\* in a state: create_session(username) at any time from now on starts the
\* lifecycle, and logging out a token makes it invalid at once
C11_AtCreation ==
    /\ \A username \in SessionUsernames, clock \in From(now) :
          \A r \in {create_session(TheAuth, username, NextToken, clock)} :
             /\ r.val = NextToken
             /\ LifecycleFrom(r.auth, username, NextToken, clock)
    /\ \A t \in Tokens, c \in From(now) :
          validate_session(logout(TheAuth, t).auth, t, c).val = <<FALSE, None>>

\* in a step: a valid token stays valid, for the same username, while the
\* clock is not past its expiry and no logout or cleanup removes it; it is
\* invalid once the clock is past its expiry; a drawn token that is invalid
\* stays invalid
C11_Step ==
    \A t \in Tokens :
       /\ (Validates(t)[1] /\ now' <= ExpiresAt(t) /\ ~RemovedByCall(t))
             => Validates(t)' = Validates(t)
       /\ (Validates(t)[1] /\ now' > ExpiresAt(t))
             => Validates(t)' = <<FALSE, None>>
       /\ (t \in Drawn /\ ~Validates(t)[1]) => Validates(t)' = <<FALSE, None>>

\* C11: with the logical clock now, the token create_session(username)
\* returns validates as (True, username) at every clock value up to its
\* expiry, creation time + session_timeout, as long as no logout or cleanup
\* removed it, and as (False, None) at every clock value after the expiry and
\* at every time after logout(token).
C11_SessionLifecycle == []C11_AtCreation /\ [][C11_Step]_vars

\* a session was created, the clock has passed its expiry, and a
\* validate_session has returned (False, None) with the session gone
C11_Witness ==
    /\ ret.op = "validate_session"
    /\ ret.val = <<FALSE, None>>
    /\ minted >= 1
    /\ ~DictHas(sessions, 1)
    /\ now > Epoch + session_timeout

\* the tokens in a session store, and the store without the tokens in gone
StoredTokens(store) == {store[k].key : k \in DOMAIN store}
StoreWithout(store, gone) ==
    LET Stays(e) == e.key \notin gone IN SelectSeq(store, Stays)

\* C12: validate_session(token) returns (True, username) exactly when token
\* is in the session store and the clock is not after its expires_at, and
\* (False, None) otherwise; a token that is in the store but expired is
\* removed from it by that call, and only that one; every other session, and
\* every user, is left as it was.
C12_ValidateFailsClosed ==
    \A t \in Tokens :
       \A r \in {validate_session(TheAuth, t, now)} :
          LET present == t \in StoredTokens(sessions)
              live == present /\ ~(now > ExpiresAt(t))
          IN  /\ r.val = IF live THEN <<TRUE, DictGet(sessions, t).username>>
                         ELSE <<FALSE, None>>
              /\ r.auth.sessions =
                    IF present /\ ~live THEN StoreWithout(sessions, {t})
                    ELSE sessions
              /\ r.auth.users = users

\* a validate_session has returned (False, None) after the clock passed the
\* expiry of the first session, which is gone while a later one is still there
C12_Witness ==
    /\ ret.op = "validate_session"
    /\ ret.val = <<FALSE, None>>
    /\ now > Epoch + session_timeout
    /\ minted >= 2
    /\ StoredTokens(sessions) = Drawn \ {1}

\* the tokens of the sessions of the state whose expires_at is before now
ExpiredTokens == {t \in StoredTokens(sessions) : ExpiresAt(t) < now}

\* C13: cleanup_expired_sessions removes the sessions whose expires_at is
\* before the clock, and only those, and returns how many they are; the
\* sessions left are unchanged and in their order, and a second call at the
\* same clock value returns 0 (and removes nothing).
C13_CleanupSweeps ==
    \A r \in {cleanup_expired_sessions(TheAuth, now)} :
       /\ r.auth.sessions = StoreWithout(sessions, ExpiredTokens)
       /\ r.val = Cardinality(ExpiredTokens)
       /\ r.auth.users = users
       /\ \A r2 \in {cleanup_expired_sessions(r.auth, now)} :
             r2.val = 0 /\ r2.auth = r.auth

\* a cleanup_expired_sessions has removed a session and left another: the
\* clock stands at the expiry time of the session that is left
C13_Witness ==
    /\ ret.op = "cleanup_expired_sessions"
    /\ ret.val >= 1
    /\ \E t \in StoredTokens(sessions) : ExpiresAt(t) = now

----------------------------------------------------------------------------
(* Credentials *)

\* the usernames in a credential store
StoredUsers(store) == {store[k].key : k \in DOMAIN store}

\* the usernames and passwords the properties range over: those callers
\* enter, those stored and one that is no user; the passwords callers enter
\* and the default password of member (each is wrong for some user)
AnyUsername == Usernames \cup StoredUsers(users) \cup {"ghost"}
AnyPassword == Passwords \cup {"member123"}

\* authenticate(username, password) succeeds on auth
Accepts(auth, username, password) ==
    authenticate(auth, username, password, now).val[1]

\* the (username, password) pairs authenticate accepts
Accepted(auth) ==
    {up \in AnyUsername \X AnyPassword : Accepts(auth, up[1], up[2])}

\* the original statement of C14: after any change_password(user, old, new)
\* that succeeds, authenticate(user, old) fails and authenticate(user, new)
\* succeeds.
C14_OldPasswordRejected ==
    \A username \in AnyUsername, old \in AnyPassword, new \in AnyPassword :
       \A r \in {change_password(TheAuth, username, old, new, now)} :
          r.val[1] => /\ ~Accepts(r.auth, username, old)
                      /\ Accepts(r.auth, username, new)

\* C14: after change_password(user, old, new) has succeeded,
\* authenticate(user, new) succeeds, and authenticate(user, old) fails when
\* the digests of old and new differ and succeeds when new is old.
C14_PasswordChanged ==
    \A username \in AnyUsername, old \in AnyPassword, new \in AnyPassword :
       \A r \in {change_password(TheAuth, username, old, new, now)} :
          r.val[1] =>
            /\ Accepts(r.auth, username, new)
            /\ _hash_password(old) # _hash_password(new)
                  => ~Accepts(r.auth, username, old)
            /\ old = new => Accepts(r.auth, username, old)

\* a change_password has succeeded and the librarian has a new password
C14_Witness ==
    /\ ret.op = "change_password"
    /\ ret.val = <<TRUE, MsgPasswordChanged>>
    /\ Accepts(TheAuth, "librarian", "newpassword")
    /\ ~Accepts(TheAuth, "librarian", "admin123")

\* C15: change_password(username, old, new) with a username that is not in
\* the credential store, or with an old password that does not match the
\* stored one, returns failure and changes no stored password (nor anything
\* else), so authenticate accepts the same (username, password) pairs after
\* the call as before it.
C15_ChangeNeedsOldPassword ==
    \A accepted \in {Accepted(TheAuth)} :
       \A username \in AnyUsername, old \in AnyPassword, new \in Passwords :
          \A r \in {change_password(TheAuth, username, old, new, now)} :
             (\/ username \notin StoredUsers(users)
              \/ DictGet(users, username).password # _hash_password(old))
                => /\ r.val[1] = FALSE
                   /\ r.auth = TheAuth
                   /\ Accepted(r.auth) = accepted

\* a change_password has failed for want of the current password: the
\* librarian has changed password before, and newuser is in the store
C15_Witness ==
    /\ ret.op = "change_password"
    /\ ret.val = <<FALSE, MsgPasswordWrong>>
    /\ "newuser" \in StoredUsers(users)
    /\ Accepts(TheAuth, "librarian", "newpassword")

\* the record stored for username in auth
UserOf(auth, username) == DictGet(auth.users, username)

\* C16: authenticate(username, password) returns (False, 'Username not
\* found') exactly when username is not in the credential store, (False,
\* 'Invalid password') exactly when it is and the password does not match the
\* stored one, and otherwise (True, data) with data carrying the username and
\* the role of the user.  On success it sets last_login of that user to the
\* clock and changes nothing else; on failure it changes nothing.
C16_AuthenticateOutcomes ==
    \A username \in AnyUsername, password \in AnyPassword :
       \A r \in {authenticate(TheAuth, username, password, now)} :
          LET known == username \in StoredUsers(users)
              match == known /\ UserOf(TheAuth, username).password
                                  = _hash_password(password)
          IN  /\ (~r.val[1] /\ r.val[2] = MsgUsernameNotFound) <=> ~known
              /\ (~r.val[1] /\ r.val[2] = MsgInvalidPassword)
                    <=> (known /\ ~match)
              /\ r.val[1] <=> match
              /\ r.val[1] => /\ r.val[2].username = username
                             /\ r.val[2].role = UserOf(TheAuth, username).role
              /\ r.auth.sessions = sessions
              /\ StoredUsers(r.auth.users) = StoredUsers(users)
              /\ \A u \in StoredUsers(users) :
                    UserOf(r.auth, u) =
                      IF match /\ u = username
                      THEN [UserOf(TheAuth, u) EXCEPT !.last_login = now]
                      ELSE UserOf(TheAuth, u)
              /\ ~r.val[1] => r.auth = TheAuth

\* an authenticate has succeeded for newuser, at a clock value later than
\* the one newuser was added at, while a session is in the store
C16_Witness ==
    /\ ret.op = "authenticate"
    /\ ret.val[1]
    /\ ret.val[2].username = "newuser"
    /\ UserOf(TheAuth, "newuser").last_login = now
    /\ UserOf(TheAuth, "newuser").created_at < now
    /\ sessions # <<>>

\* in a state: add_user on a stored username returns False and changes
\* nothing; on a new username it returns True, leaves the stored records as
\* they were and makes (username, password) authenticate
C17_AddUser ==
    \A username \in AnyUsername, password \in AnyPassword, role \in Roles :
       \A r \in {add_user(TheAuth, username, password, role, "{}", now)} :
          IF username \in StoredUsers(users)
          THEN r.val = FALSE /\ r.auth = TheAuth
          ELSE /\ r.val = TRUE
               /\ Accepts(r.auth, username, password)
               /\ UserOf(r.auth, username).role = role
               /\ \A u \in StoredUsers(users) :
                     /\ u \in StoredUsers(r.auth.users)
                     /\ UserOf(r.auth, u) = UserOf(TheAuth, u)

\* in a step: every stored username is still stored, with the role, the
\* info and the creation time it had
C17_Kept ==
    \A u \in StoredUsers(users) :
       /\ u \in StoredUsers(users')
       /\ UserOf(TheAuth, u).role = UserOf(TheAuth, u)'.role
       /\ UserOf(TheAuth, u).info = UserOf(TheAuth, u)'.info
       /\ UserOf(TheAuth, u).created_at = UserOf(TheAuth, u)'.created_at

\* C17: user records are never removed or replaced: add_user on a username
\* that is in the store returns False and leaves its record unchanged,
\* add_user on a new username returns True and makes (username, password)
\* authenticate, and no operation of AuthSystem removes a username from the
\* store or replaces its record.
C17_UsersNeverRemoved == []C17_AddUser /\ [][C17_Kept]_vars

\* an add_user has returned False for newuser, who was added before, has
\* authenticated since and still authenticates
C17_Witness ==
    /\ ret.op = "add_user"
    /\ ret.val = FALSE
    /\ "newuser" \in StoredUsers(users)
    /\ \E p \in Passwords :
          /\ Accepts(TheAuth, "newuser", p)
          /\ UserOf(TheAuth, "newuser").last_login # None

\* C18: create_session(username) does not consult the credential store: for
\* every username, one that is not in users included, it returns a token
\* that was not in the session store, stores a session under it after the
\* sessions that were there, which it leaves unchanged, does not change
\* users, and validate_session of the token returns (True, username) at
\* every clock value up to the expiry of the session; with an empty
\* credential store it does the same.
C18_CreateSessionUnchecked ==
    \A username \in AnyUsername :
       \A r \in {create_session(TheAuth, username, NextToken, now)} :
          /\ r.val \notin StoredTokens(sessions)
          /\ StoredTokens(r.auth.sessions) = StoredTokens(sessions) \cup {r.val}
          /\ SubSeq(r.auth.sessions, 1, Len(sessions)) = sessions
          /\ Len(r.auth.sessions) = Len(sessions) + 1
          /\ r.auth.users = users
          /\ \A c \in From(now) :
                c <= now + session_timeout
                  => validate_session(r.auth, r.val, c).val = <<TRUE, username>>
          /\ \A e \in {create_session([TheAuth EXCEPT !.users = <<>>],
                                      username, NextToken, now)} :
                e.val = r.val /\ e.auth.sessions = r.auth.sessions

\* a create_session has stored a session for a username that is not in
\* users, after a session that was there before
C18_Witness ==
    /\ ret.op = "create_session"
    /\ Len(sessions) >= 2
    /\ DictHas(sessions, ret.val)
    /\ DictGet(sessions, ret.val).username \notin StoredUsers(users)
    /\ Validates(ret.val) = <<TRUE, "ghost">>

----------------------------------------------------------------------------
(* Search *)

\* two characters are the same letter, in whatever case
SameLetter(x, y) == x = y \/ {x, y} \in {{"a", "A"}, {"b", "B"}}

\* query occurs in text when case is ignored
OccursIn(query, text) ==
    \E i \in 1 .. Len(text) - Len(query) + 1 :
       \A j \in 1 .. Len(query) : SameLetter(text[i + j - 1], query[j])

\* the books of the catalog, as references, that match query by title, by
\* author and by ISBN
CatalogBooks(lib) == DOMAIN lib.books
TitleMatches(lib, query) ==
    {b \in CatalogBooks(lib) : OccursIn(query, BookAt(lib, b).title)}
AuthorMatches(lib, query) ==
    {b \in CatalogBooks(lib) : OccursIn(query, BookAt(lib, b).author)}
IsbnMatches(lib, query) ==
    {b \in CatalogBooks(lib) : BookAt(lib, b).isbn = query}

\* list holds every book of set once and nothing else
HoldsOnce(list, set) ==
    /\ {list[k] : k \in DOMAIN list} = set
    /\ Len(list) = Cardinality(set)

\* list is in insertion order of the catalog
InCatalogOrder(list) ==
    \A i \in DOMAIN list, j \in DOMAIN list : i < j => list[i] < list[j]

\* C19: for a non-empty query, search_by_title, and search_books in mode
\* 'title', return the books of the catalog whose title contains the query
\* as a substring when case is ignored, each once and nothing else, in the
\* insertion order of the catalog; for the empty query they return [].
C19_TitleSearch ==
    \A query \in Queries :
       \A r \in {search_by_title(TheLibrary, query),
                 search_books(TheLibrary, query, "title")} :
          IF query = <<>> THEN r = <<>>
          ELSE /\ HoldsOnce(r, TitleMatches(TheLibrary, query))
               /\ InCatalogOrder(r)

\* a search_by_title for "a" has returned the second book of the catalog and
\* not the first: the title of the second is "Ab", that of the first "b"
C19_Witness ==
    /\ ret.op = "search_by_title"
    /\ ret.args = << <<"a">> >>
    /\ ret.val = <<2>>
    /\ Len(books) = 2
    /\ BookAt(TheLibrary, 2).title = <<"A", "b">>

\* where search_books in mode 'all' first finds a book: in the title search,
\* in the author search, in the ISBN lookup
FoundBy(lib, query, b) ==
    IF b \in TitleMatches(lib, query) THEN 1
    ELSE IF b \in AuthorMatches(lib, query) THEN 2 ELSE 3

\* C20: for a non-empty query, search_books(library, query, 'all') holds
\* each book at most once, and the books it holds are those whose title
\* matches the query, those whose author matches it and the one whose ISBN
\* is the query; each book stands where it was first found: the title
\* matches come first, then the other author matches, then the book found by
\* ISBN alone, each group in the insertion order of the catalog.
C20_AllModeUnion ==
    \A query \in Queries \ {<<>>} :
       \A r \in {search_books(TheLibrary, query, "all")} :
          /\ HoldsOnce(r, TitleMatches(TheLibrary, query)
                            \cup AuthorMatches(TheLibrary, query)
                            \cup IsbnMatches(TheLibrary, query))
          /\ \A i \in DOMAIN r, j \in DOMAIN r :
                i < j =>
                  \/ FoundBy(TheLibrary, query, r[i])
                        < FoundBy(TheLibrary, query, r[j])
                  \/ /\ FoundBy(TheLibrary, query, r[i])
                          = FoundBy(TheLibrary, query, r[j])
                     /\ r[i] < r[j]

\* a search_books in mode 'all' has returned the second book of the catalog,
\* which matches by title, by author and by ISBN, before the first, which
\* matches by author only
C20_Witness ==
    /\ ret.op = "search_books"
    /\ ret.args[2] = "all"
    /\ ret.val = <<2, 1>>
    /\ \A q \in {ret.args[1]} :
          /\ 2 \in TitleMatches(TheLibrary, q) \cap AuthorMatches(TheLibrary, q)
                     \cap IsbnMatches(TheLibrary, q)
          /\ 1 \in AuthorMatches(TheLibrary, q) \ TitleMatches(TheLibrary, q)

\* the original statement of C21: in every mode and for every query, the
\* list search_books returns is in the insertion order of the catalog.
C21_InsertionOrder ==
    \A query \in Queries, search_type \in SearchTypes :
       InCatalogOrder(search_books(TheLibrary, query, search_type))

\* the books of list that are not in seen
NotIn(list, seen) ==
    LET New(b) == ~ListContains(seen, b) IN SelectSeq(list, New)

\* C21: in the modes 'title', 'author' and 'isbn', and for every query, the
\* list search_books returns is in the insertion order of the catalog; in
\* mode 'all' it is the list of mode 'title', followed by the books of the
\* list of mode 'author' that are not in it, followed by the book of mode
\* 'isbn' if it is in neither, so that each of the three parts is in
\* insertion order but a book inserted earlier may stand after a later one.
C21_OrderByMode ==
    \A query \in Queries :
       \A t \in {search_books(TheLibrary, query, "title")},
          a \in {search_books(TheLibrary, query, "author")},
          i \in {search_books(TheLibrary, query, "isbn")} :
          /\ InCatalogOrder(t) /\ InCatalogOrder(a) /\ InCatalogOrder(i)
          /\ search_books(TheLibrary, query, "all")
                = t \o NotIn(a, t) \o NotIn(i, t \o a)

\* a search_books in mode 'all' has returned the second book of the catalog,
\* found by title, before the first, found by ISBN alone
C21_Witness ==
    /\ ret.op = "search_books"
    /\ ret.args[2] = "all"
    /\ ret.val = <<2, 1>>
    /\ FoundBy(TheLibrary, ret.args[1], 2) = 1
    /\ 1 \in IsbnMatches(TheLibrary, ret.args[1])
    /\ FoundBy(TheLibrary, ret.args[1], 1) = 3

----------------------------------------------------------------------------
(* The catalog *)

\* the entries of lib.books stored under isbn
EntriesOf(lib, isbn) == {k \in DOMAIN lib.books : lib.books[k].key = isbn}

\* C22: Library.add_book(book) always returns True; afterwards
\* get_book(book.isbn) is the book just added, whatever book was stored
\* under that ISBN before, the catalog holds one entry for that ISBN, and
\* every entry under another ISBN and every member is as it was.
C22_AddBookLastWriteWins ==
    \A isbn \in ISBNs, title \in Titles, copies \in CopiesIn :
       \A book \in {Book(isbn, title, LendingAuthor, copies)} :
          \A r \in {add_book(TheLibrary, book)} :
             /\ r.ok = TRUE
             /\ get_book(r.lib, isbn) # None
             /\ r.lib.books[get_book(r.lib, isbn)].val = book
             /\ Cardinality(EntriesOf(r.lib, isbn)) = 1
             /\ CatalogIsbns(r.lib) = CatalogIsbns(TheLibrary) \cup {isbn}
             /\ \A other \in CatalogIsbns(TheLibrary) \ {isbn} :
                   /\ Cardinality(EntriesOf(r.lib, other)) = 1
                   /\ DictGet(r.lib.books, other) = DictGet(books, other)
             /\ r.lib.members = members
             /\ r.lib.objs = member_objs

\* an add_book has replaced a book that a member holds: the book has all
\* its copies again while the member still holds one
C22_Witness ==
    /\ ret.op = "add_book"
    /\ \E isbn \in CatalogIsbns(TheLibrary) :
          /\ Copies(TheLibrary, isbn) = MaxCopies
          /\ Holders(TheLibrary, isbn) # {}
    /\ Len(books) = 2

\* the (member id, position) pairs of the borrowed lists of the members of
\* the catalog: one for every book a member of the catalog has borrowed
Borrowings(lib) ==
    UNION {{<<lib.members[k].key, j>> :
              j \in DOMAIN lib.objs[lib.members[k].val].borrowed_books} :
           k \in DOMAIN lib.members}

\* in a state: what get_library_stats returns
C23_Counts ==
    \A stats \in {get_library_stats(TheLibrary)} :
       /\ stats.total_books = Cardinality(CatalogIsbns(TheLibrary))
       /\ stats.available_books =
             Cardinality({isbn \in CatalogIsbns(TheLibrary) :
                             Copies(TheLibrary, isbn) > 0})
       /\ stats.total_members =
             Cardinality({members[k].key : k \in DOMAIN members})
       /\ stats.books_borrowed = Cardinality(Borrowings(TheLibrary))

\* in a step that is a get_library_stats, nothing of the catalog changes
C23_ReadOnly ==
    ret'.op = "get_library_stats"
      => UNCHANGED <<books, members, member_objs>>

\* C23: in every reachable catalog get_library_stats returns total_books =
\* the number of books of the catalog, available_books = the number of
\* those with copies > 0, total_members = the number of members of the
\* catalog and books_borrowed = the sum of the lengths of their borrowed
\* lists, and the call changes nothing in the catalog.
C23_Statistics == []C23_Counts /\ [][C23_ReadOnly]_vars

\* a get_library_stats has counted two books of which one has no copy left,
\* and two members who have borrowed three books between them
C23_Witness ==
    /\ ret.op = "get_library_stats"
    /\ ret.val = [total_books |-> 2, available_books |-> 1,
                  total_members |-> 2, books_borrowed |-> 3]

\* the AuthSystem operations, with the login of LoginWindow, which calls
\* authenticate and create_session
AuthOps ==
    {"add_user", "authenticate", "create_session", "login", "validate_session",
     "logout", "change_password", "cleanup_expired_sessions"}

\* the operations of library.py, issue_return.py and search.py
CatalogOps ==
    {"add_book", "remove_book", "add_member", "remove_member", "issue_book",
     "return_book", "issue_book_by_id", "return_book_by_id",
     "get_library_stats", "search_by_title", "search_books"}

\* C24: no AuthSystem operation changes a book, a member, a copy count or a
\* borrowed list, and no catalog, lending or search operation changes the
\* credential store or the session store.
C24_Step ==
    /\ ret'.op \in AuthOps => UNCHANGED <<books, members, member_objs>>
    /\ ret'.op \in CatalogOps => UNCHANGED <<users, sessions>>
    /\ UNCHANGED <<books, members, member_objs>> \/ UNCHANGED <<users, sessions>>

C24_Independent == [][C24_Step]_vars

\* a logout has just removed the session of a login made while a book of the
\* catalog was on loan to a member of the catalog
C24_Witness ==
    /\ \E isbn \in CatalogIsbns(TheLibrary) : Holders(TheLibrary, isbn) # {}
    /\ ret.op = "logout"
    /\ ret.val
    /\ minted > 0
    /\ sessions = <<>>

\* the callers that have changed book.copies and not yet the borrowed list
\* of their member: those issuing isbn, and those returning it
HalfIssued(isbn) ==
    {c \in Callers : /\ callers[c].pc = "member"
                     /\ callers[c].isbn = isbn
                     /\ callers[c].op = "issue_book"}
HalfReturned(isbn) ==
    {c \in Callers : /\ callers[c].pc = "member"
                     /\ callers[c].isbn = isbn
                     /\ callers[c].op = "return_book"}

\* C25: when several callers issue and return books and each call of
\* issue_book / return_book runs entirely while its caller holds the one
\* exclusive lock on the catalog, then in every interleaving the copies of
\* every book are >= 0, the conservation sum copies + holders of every book
\* is what was stocked in every state in which no call is between its two
\* mutations, and while a call is between its two mutations its caller holds
\* the lock and every other caller is outside issue_book / return_book, so
\* no caller observes the catalog with only one of the two mutations applied.
C25_AtomicUnderLock ==
    /\ \A isbn \in CatalogIsbns(TheLibrary) :
          /\ Copies(TheLibrary, isbn) >= 0
          /\ HalfIssued(isbn) \cup HalfReturned(isbn) = {}
                => Total(TheLibrary, isbn) = StockCopies
    /\ \A c \in Callers :
          callers[c].pc # "idle"
            => /\ lock = c
               /\ \A d \in Callers \ {c} : callers[d].pc = "idle"

\* caller 1 holds the lock and is between the two mutations of an issue,
\* after a return made by a caller has succeeded, while caller 2 is idle
C25_Witness ==
    /\ lock = 1
    /\ callers[1].pc = "member"
    /\ callers[1].op = "issue_book"
    /\ callers[2].pc = "idle"
    /\ ret.op = "return_book"
    /\ ret.ok

\* the conservation sum of isbn with the calls in progress counted: a call
\* that has taken a copy and not yet appended counts as a holder, one that
\* has put a copy back and not yet removed counts as one holder less
SumInProgress(isbn) ==
    Total(TheLibrary, isbn) + Cardinality(HalfIssued(isbn))
        - Cardinality(HalfReturned(isbn))

\* the step is caller c storing book.copies / updating its member's list
Writes(c) == callers[c].pc = "write" /\ callers'[c].pc = "member"
Updates(c) == callers[c].pc = "member" /\ callers'[c].pc = "return"

\* C26: when two callers run issue_book on the same book without any lock,
\* the statements of issue_book being separate steps, the interleavings in
\* which a caller acts on what another caller has changed since it checked
\* or read break copies >= 0 or the conservation sum, and only those do: a
\* step changes the conservation sum exactly when it stores copies computed
\* from a value that is no longer the stored one, or appends for a member
\* that by now holds the book; and a store leaves copies < 0 exactly when the
\* value read was <= 0, that is, the availability check was overtaken.
C26_Step ==
    \A isbn \in CatalogIsbns(TheLibrary) :
        /\ SumInProgress(isbn)' # SumInProgress(isbn)
              <=> \E c \in Callers :
                     /\ callers[c].isbn = isbn
                     /\ \/ /\ Writes(c)
                           /\ callers[c].copies # Copies(TheLibrary, isbn)
                        \/ /\ Updates(c)
                           /\ has_book(member_objs[callers[c].member], isbn)
        /\ \A c \in Callers :
              callers[c].isbn = isbn /\ Writes(c)
                => (Copies(TheLibrary, isbn)' < 0 <=> callers[c].copies <= 0)
        /\ (\A c \in Callers : ~(callers[c].isbn = isbn /\ Writes(c)))
              => Copies(TheLibrary, isbn)' = Copies(TheLibrary, isbn)

C26_RaceBreaksInvariants == [][C26_Step]_vars

\* both callers have returned from issue_book, the last with success, and
\* the book has copies < 0 or a conservation sum that is not what was stocked
C26_Witness ==
    /\ \A c \in Callers : callers[c].pc = "idle"
    /\ ret.op = "issue_book"
    /\ ret.ok
    /\ \E isbn \in CatalogIsbns(TheLibrary) :
          \/ Copies(TheLibrary, isbn) < 0
          \/ Total(TheLibrary, isbn) # StockCopies

\* C27: issue_book(isbn, member) succeeds exactly when the book is in the
\* catalog, its copies are > 0 and the member does not hold the ISBN; when
\* it fails nothing changes and the reason is NotFound if the book is absent,
\* otherwise Unavailable if copies <= 0, also when the member holds the
\* book, otherwise AlreadyHeld.
C27_IssuePrecedence ==
    \A isbn \in ISBNs, member \in Refs :
        \A r \in {issue_book(TheLibrary, isbn, member)} :
            LET present == isbn \in CatalogIsbns(TheLibrary)
                held == Holds(TheLibrary, member, isbn)
            IN  /\ r.ok <=> /\ present
                            /\ Copies(TheLibrary, isbn) > 0
                            /\ ~held
                /\ r.ok => r.msg = MsgIssued
                /\ ~r.ok =>
                      /\ r.lib = TheLibrary
                      /\ r.msg = IF ~present THEN MsgBookNotFound
                                 ELSE IF Copies(TheLibrary, isbn) <= 0
                                 THEN MsgNotAvailable
                                 ELSE MsgAlreadyHas

\* the one book of the catalog has copies < 0 and the one Member holds it,
\* and the issue just made has failed as Unavailable
C27_Witness ==
    /\ ret.op = "issue_book"
    /\ ~ret.ok
    /\ ret.msg = MsgNotAvailable
    /\ Len(books) = 1
    /\ Len(member_objs) = 1
    /\ books[1].val.copies < 0
    /\ Holds(TheLibrary, 1, books[1].key)

\* C28: in every state reached by add_book, remove_book, add_member,
\* issue_book_by_id and return_book_by_id, if the borrowed list of a member
\* of the catalog contains an ISBN then that ISBN is the key of a book of the
\* catalog and return_book_by_id(isbn, member_id) succeeds.
C28_HeldBookReturnable ==
    \A member_id \in MemberIds, isbn \in ISBNs :
        \A member \in {get_member(TheLibrary, member_id)} :
            (member # None /\ Holds(TheLibrary, member, isbn))
                => /\ isbn \in CatalogIsbns(TheLibrary)
                   /\ return_book_by_id(TheLibrary, isbn, member_id).ok

\* validate_session(token) returns (False, None) at every clock value from
\* clock on, for the AuthSystem value auth
RejectedFrom(auth, token, clock) ==
    \A c \in From(clock) :
        validate_session(auth, token, c).val = <<FALSE, None>>

\* in a state: the token create_session issues next was never issued, and a
\* validate_session that rejects an issued token leaves it out of the store
\* and rejected from now on
C29_AtRejection ==
    /\ NextToken \notin Drawn \cup StoredTokens(sessions)
    /\ \A t \in Drawn :
          \A r \in {validate_session(TheAuth, t, now)} :
             r.val = <<FALSE, None>>
                => /\ t \notin StoredTokens(r.auth.sessions)
                   /\ RejectedFrom(r.auth, t, now)

\* in a step of create_session, validate_session, logout, cleanup or the
\* clock: an issued token that is rejected from now on is so after the step
C29_Step ==
    \A t \in Drawn :
        RejectedFrom(TheAuth, t, now) => RejectedFrom(TheAuth', t, now')

\* C29: once validate_session(token) has returned (False, None) for a token
\* that create_session issued, every later validate_session(token) returns
\* (False, None), whatever create_session, logout, cleanup_expired_sessions
\* calls and clock advances come between, create_session never issuing a
\* token twice.
C29_InvalidIsAbsorbing == []C29_AtRejection /\ [][C29_Step]_vars

\* the first token was logged out or has expired and is rejected, and
\* create_session has just issued the second token, which validates
C29_Witness ==
    /\ ret.op = "create_session"
    /\ ret.val = 2
    /\ Validates(1) = <<FALSE, None>>
    /\ Validates(2)[1]

\* C30: change_password, when it succeeds and when it fails, leaves the
\* session store as it was, so that every token, and so every token of the
\* user whose password is changed, validates after the call as it did
\* before it.
C30_ChangeKeepsSessions ==
    \A username \in AnyUsername, old_password \in AnyPassword,
       new_password \in Passwords :
        \A r \in {change_password(TheAuth, username, old_password,
                                  new_password, now)} :
           /\ r.auth.sessions = sessions
           /\ \A t \in Tokens :
                 validate_session(r.auth, t, now).val = Validates(t)

\* librarian has logged in, the change of librarian's password to another
\* one has just succeeded, and the token of the login validates
C30_Witness ==
    /\ ret.op = "change_password"
    /\ ret.val = <<TRUE, MsgPasswordChanged>>
    /\ DictGet(users, "librarian").password = _hash_password("newpassword")
    /\ Validates(1) = <<TRUE, "librarian">>

====
